---- MODULE Spec2Model ----
(***************************************************************************)
(* Model of main.cpp: a pyramid of integers is read into a DAG (source 0,  *)
(* one vertex per cell, sink V-1; edges only into non-prime cells, with    *)
(* negated weights), and DAG::maximumSum finds the longest path by a       *)
(* topological sort followed by shortest-path relaxation.                  *)
(***************************************************************************)
EXTENDS Integers, Sequences, FiniteSets, TLC

\* ---------------------------------------------------------------- bounds
MaxN == 3          \* number of rows (lines of the input file)
Values == {1, 4, 5}   \* numbers that may occur in the input file

\* ------------------------------------------------------------- constants
INT_MAX == 2147483647

VARIABLES
    N,            \* level count of the input
    grid,         \* the numbers of the input file, in reading order
    vertexAmount, \* DAG::vertexAmount
    edgeList,     \* DAG::edgeList : vertex -> list of Edge
    visited,      \* DAG::visited
    s,            \* DAG::s, top of the stack is the last element
    sum,          \* local array of maximumSum
    pc,           \* position of the program
    i, j, index,  \* loop variables of readInput
    fault,        \* an addEdge call indexed outside edgeList
    out           \* lines printed by maximumSum, one per call

vars == <<N, grid, vertexAmount, edgeList, visited, s, sum, pc, i, j, index,
          fault, out>>

\* ------------------------------------------------------------ primality
RECURSIVE isPrimeLoop(_, _)
isPrimeLoop(num, k) ==
    IF k * k <= num
    THEN IF num % k = 0 \/ num % (k + 2) = 0 THEN FALSE
         ELSE isPrimeLoop(num, k + 6)
    ELSE TRUE

RECURSIVE isPrimeLoopLinear(_, _)
isPrimeLoopLinear(num, k) ==
    IF k <= num
    THEN IF num % k = 0 \/ num % (k + 2) = 0 THEN FALSE
         ELSE isPrimeLoopLinear(num, k + 6)
    ELSE TRUE

\* loop bound written i <= num instead of i * i <= num
isPrimeLinearBound(num) ==
    IF num <= 1 THEN FALSE
    ELSE IF num <= 3 THEN TRUE
    ELSE IF num % 2 = 0 \/ num % 3 = 0 THEN FALSE
    ELSE isPrimeLoopLinear(num, 5)

isPrime(num) ==
    IF num <= 1 THEN FALSE
    ELSE IF num <= 3 THEN TRUE
    ELSE IF num % 2 = 0 \/ num % 3 = 0 THEN FALSE
    ELSE isPrimeLoop(num, 5)

\* --------------------------------------------------------------- the DAG
Edge(vertexNum, edgeWeight) ==
    [vertexNum |-> vertexNum, edgeWeight |-> edgeWeight]

RECURSIVE NSumOf(_)
NSumOf(n) == IF n <= 0 THEN 0 ELSE n + NSumOf(n - 1)

\* source and destination exchanged
addEdgeReversed(el, source, destination, positiveWeight) ==
    IF destination \in DOMAIN el
    THEN [el EXCEPT ![destination] = Append(@, Edge(source, -positiveWeight))]
    ELSE el

addEdge(el, source, destination, positiveWeight) ==
    IF source \in DOMAIN el
    THEN [el EXCEPT ![source] = Append(@, Edge(destination, -positiveWeight))]
    ELSE el

RECURSIVE addEdges(_, _)
addEdges(el, calls) ==
    IF calls = <<>> THEN el
    ELSE addEdges(addEdge(el, calls[1][1], calls[1][2], calls[1][3]),
                  Tail(calls))

\* ------------------------------------------------------------- readInput
\* left-edge cell wired to index - i instead of index - i + 1
parentEdgesOffByOne(ii, jj, idx, num) ==
    IF jj = 0 THEN << <<idx - ii, idx, num>> >>
    ELSE IF jj + 1 = ii THEN << <<idx - ii, idx, num>> >>
    ELSE << <<idx - ii, idx, num>>, <<idx - ii + 1, idx, num>> >>

parentEdges(ii, jj, idx, num) ==
    IF jj = 0 THEN << <<idx - ii + 1, idx, num>> >>
    ELSE IF jj + 1 = ii THEN << <<idx - ii, idx, num>> >>
    ELSE << <<idx - ii, idx, num>>, <<idx - ii + 1, idx, num>> >>

\* sink computed as index + i - j - 1
sinkEdgesOffByOne(ii, jj, idx, n) ==
    IF ii = n THEN << <<idx, idx + ii - jj - 1, 0>> >> ELSE <<>>

sinkEdges(ii, jj, idx, n) ==
    IF ii = n THEN << <<idx, idx + ii - jj, 0>> >> ELSE <<>>

cellEdges(ii, jj, idx, num, n) ==
    IF isPrime(num) = FALSE
    THEN parentEdges(ii, jj, idx, num) \o sinkEdges(ii, jj, idx, n)
    ELSE <<>>

Init ==
    /\ N \in 1..MaxN
    /\ grid \in [1..NSumOf(N) -> Values]
    /\ vertexAmount = NSumOf(N) + 2
    /\ edgeList = [v \in 0..(NSumOf(N) + 1) |-> <<>>]
    /\ visited = <<>>
    /\ s = <<>>
    /\ sum = <<>>
    /\ pc = "readFirst"
    /\ i = 0 /\ j = 0 /\ index = 0
    /\ fault = FALSE
    /\ out = <<>>

ReadFirst ==
    /\ pc = "readFirst"
    /\ LET num == grid[1] IN
        IF isPrime(num) = TRUE
        THEN /\ pc' = "built"
             /\ UNCHANGED <<edgeList, i, j, index, fault>>
        ELSE /\ edgeList' = addEdge(edgeList, 0, 1, num)
             /\ fault' = (fault \/ 0 \notin DOMAIN edgeList)
             /\ index' = 2
             /\ i' = 2
             /\ j' = 0
             /\ pc' = IF 2 <= N THEN "readLoop" ELSE "built"
    /\ UNCHANGED <<N, grid, vertexAmount, visited, s, sum, out>>

ReadCell ==
    /\ pc = "readLoop"
    /\ LET num == grid[index]
           calls == cellEdges(i, j, index, num, N)
       IN /\ edgeList' = addEdges(edgeList, calls)
          /\ fault' = (fault \/ \E k \in 1..Len(calls) :
                                    calls[k][1] \notin DOMAIN edgeList)
    /\ index' = index + 1
    /\ IF j + 1 < i
       THEN /\ j' = j + 1
            /\ UNCHANGED <<i, pc>>
       ELSE /\ i' = i + 1
            /\ j' = 0
            /\ pc' = IF i + 1 <= N THEN "readLoop" ELSE "built"
    /\ UNCHANGED <<N, grid, vertexAmount, visited, s, sum, out>>

\* ----------------------------------------------------------- maximumSum
RECURSIVE topologicalSortRecursive(_, _)
RECURSIVE visitEdges(_, _, _)
visitEdges(vertex, k, st) ==
    IF k > Len(edgeList[vertex]) THEN st
    ELSE LET edge == edgeList[vertex][k] IN
         visitEdges(vertex, k + 1,
                    IF st.visited[edge.vertexNum] = FALSE
                    THEN topologicalSortRecursive(edge.vertexNum, st)
                    ELSE st)

\* vertex pushed before its successors are visited
topologicalSortPreorder(vertex, st) ==
    LET st1 == [st EXCEPT !.visited[vertex] = TRUE, !.s = Append(@, vertex)]
    IN visitEdges(vertex, 1, st1)

topologicalSortRecursive(vertex, st) ==
    LET st1 == [st EXCEPT !.visited[vertex] = TRUE]
        st2 == visitEdges(vertex, 1, st1)
    IN [st2 EXCEPT !.s = Append(@, vertex)]

RECURSIVE sortAll(_, _)
sortAll(v, st) ==
    IF v >= vertexAmount THEN st
    ELSE sortAll(v + 1, IF st.visited[v] = FALSE
                        THEN topologicalSortRecursive(v, st)
                        ELSE st)

\* loop left when one element remains
stackEmptyLeavesOne(st) == Len(st) <= 1

stackEmpty(st) == Len(st) = 0

\* comparison reversed
relaxEdgeReversed(sm, source, edge) ==
    IF sm[edge.vertexNum] < sm[source] + edge.edgeWeight
    THEN [sm EXCEPT ![edge.vertexNum] = sm[source] + edge.edgeWeight]
    ELSE sm

relaxEdge(sm, source, edge) ==
    IF sm[edge.vertexNum] > sm[source] + edge.edgeWeight
    THEN [sm EXCEPT ![edge.vertexNum] = sm[source] + edge.edgeWeight]
    ELSE sm

RECURSIVE relaxEdges(_, _, _)
relaxEdges(sm, source, k) ==
    IF k > Len(edgeList[source]) THEN sm
    ELSE relaxEdges(relaxEdge(sm, source, edgeList[source][k]), source, k + 1)

RECURSIVE printSum(_, _)
printSum(sm, v) ==
    IF v < 0 THEN [kind |-> "none", value |-> 0]
    ELSE IF sm[v] # INT_MAX THEN [kind |-> "sum", value |-> -sm[v]]
    ELSE printSum(sm, v - 1)

TopologicalSort ==
    /\ LET st == sortAll(0, [visited |-> [v \in 0..(vertexAmount - 1) |-> FALSE],
                             s |-> s])
       IN s' = st.s
    /\ visited' = <<>>
    /\ pc' = "sorted"
    /\ UNCHANGED <<N, grid, vertexAmount, edgeList, sum, i, j, index, fault, out>>

InitSum ==
    /\ pc = "sorted"
    /\ sum' = [v \in 0..(vertexAmount - 1) |-> IF v = 0 THEN 0 ELSE INT_MAX]
    /\ pc' = "relax"
    /\ UNCHANGED <<N, grid, vertexAmount, edgeList, visited, s, i, j, index,
                   fault, out>>

RelaxStep ==
    /\ pc = "relax"
    /\ stackEmpty(s) = FALSE
    /\ LET source == s[Len(s)] IN
        /\ s' = SubSeq(s, 1, Len(s) - 1)
        /\ sum' = IF sum[source] # INT_MAX
                  THEN relaxEdges(sum, source, 1)
                  ELSE sum
    /\ UNCHANGED <<N, grid, vertexAmount, edgeList, visited, pc, i, j, index,
                   fault, out>>

PrintSum ==
    /\ pc = "relax"
    /\ stackEmpty(s)
    /\ out' = Append(out, printSum(sum, vertexAmount - 1))
    /\ sum' = <<>>
    /\ pc' = "done"
    /\ UNCHANGED <<N, grid, vertexAmount, edgeList, visited, s, i, j, index,
                   fault>>

\* main calls maximumSum once the pyramid is read
CallMaximumSum ==
    /\ pc = "built"
    /\ TopologicalSort

\* a second call of maximumSum on the same DAG, after the first has returned
CallMaximumSumAgain ==
    /\ pc = "done"
    /\ Len(out) = 1
    /\ TopologicalSort

Next ==
    \/ ReadFirst
    \/ ReadCell
    \/ CallMaximumSum
    \/ InitSum
    \/ RelaxStep
    \/ PrintSum

Spec == Init /\ [][Next]_vars

NextTwice ==
    \/ Next
    \/ CallMaximumSumAgain

SpecTwice == Init /\ [][NextTwice]_vars

\* ------------------------------------------------- the pyramid, by itself
IsPrimeNumber(n) == n > 1 /\ \A d \in 2..(n - 1) : n % d # 0

Cell(r, c) == ((r - 1) * r) \div 2 + 1 + c
Sink == NSumOf(N) + 1
Vertices == 0..(NSumOf(N) + 1)
RowOf(v) == CHOOSE r \in 1..N : Cell(r, 0) <= v /\ v <= Cell(r, r - 1)
IsCell(v) == 1 <= v /\ v <= NSumOf(N)
PrimeCell(v) == IsCell(v) /\ IsPrimeNumber(grid[v])

\* paths from the apex down to row n: p[r] is the position taken in row r,
\* and from position c of a row one steps to position c or c + 1 of the next
RECURSIVE PathsTo(_)
PathsTo(n) ==
    IF n = 1 THEN {<<0>>}
    ELSE UNION {{Append(p, p[n - 1]), Append(p, p[n - 1] + 1)} :
                    p \in PathsTo(n - 1)}
PrimeFree(p) == \A r \in DOMAIN p : ~IsPrimeNumber(grid[Cell(r, p[r])])
RECURSIVE PathSum(_, _)
PathSum(p, r) == IF r = 0 THEN 0 ELSE grid[Cell(r, p[r])] + PathSum(p, r - 1)
Maximum(S) == CHOOSE m \in S : \A x \in S : x <= m
PrimeFreeSums(n) == {PathSum(p, n) : p \in {q \in PathsTo(n) : PrimeFree(q)}}
\* best sum over the source and every cell a prime-free partial path reaches
BestNonSinkSum == Maximum({0} \cup UNION {PrimeFreeSums(n) : n \in 1..N})

EdgesInto(v) ==
    {<<u, k>> \in Vertices \X (1..2) :
        k <= Len(edgeList[u]) /\ edgeList[u][k].vertexNum = v}
AllEdges ==
    {<<u, k>> \in Vertices \X (1..2) : k <= Len(edgeList[u])}
Parents(r, c) ==
    (IF c > 0 THEN {Cell(r - 1, c - 1)} ELSE {})
        \cup (IF c < r - 1 THEN {Cell(r - 1, c)} ELSE {})
Built == pc \in {"built", "sorted", "relax", "done"}
PopPosition(v) == CHOOSE k \in 1..Len(s) : s[k] = v

\* C1: when a prime-free top-to-bottom path exists, every call reports a
\* sum, and it is the maximum of the sums of the prime-free paths.
C1_MaximumSumCorrect ==
    (pc = "done" /\ PrimeFreeSums(N) # {}) =>
        \A k \in 1..Len(out) :
            out[k] = [kind |-> "sum", value |-> Maximum(PrimeFreeSums(N))]

C1_Witness ==
    /\ pc = "done" /\ N = 3
    /\ \E v \in 1..NSumOf(N) : IsPrimeNumber(grid[v])
    /\ PrimeFreeSums(N) # {}
    /\ out[1] = [kind |-> "sum", value |-> 9]

\* C2: when the value of row 1 is prime, every call reports that no maximum
\* sum exists and never a number.
C2_PrimeApexReportsNone ==
    (pc = "done" /\ IsPrimeNumber(grid[1])) => \A k \in 1..Len(out) : out[k].kind = "none"

\* C3: with a non-prime row 1 and an all-prime bottom row (N >= 2), the
\* report is either "does not exist" or the best finite non-sink sum.
C3_UnreachableSinkReportsBest ==
    (/\ pc = "done"
     /\ N >= 2
     /\ ~IsPrimeNumber(grid[1])
     /\ \A c \in 0..(N - 1) : IsPrimeNumber(grid[Cell(N, c)]))
    => \A k \in 1..Len(out) :
          \/ out[k].kind = "none"
          \/ out[k] = [kind |-> "sum", value |-> BestNonSinkSum]

\* C4: after the sort the stack holds every vertex exactly once, and for
\* every edge u -> v, u is popped before v (u lies nearer the top).
C4_TopologicalOrder ==
    pc = "sorted" =>
        /\ Len(s) = vertexAmount
        /\ \A v \in Vertices : \E k \in 1..Len(s) : s[k] = v
        /\ \A e \in AllEdges :
              PopPosition(e[1]) > PopPosition(edgeList[e[1]][e[2]].vertexNum)

C4_Witness ==
    /\ pc = "sorted" /\ N = 3
    /\ Len(edgeList[2]) = 2 /\ Len(edgeList[3]) = 2
    /\ edgeList[5] # <<>>

\* C5: a call of maximumSum leaves vertexAmount and edgeList unchanged and
\* the stack empty, and a second call reports what the first one did.
C5_SecondCallSameResult ==
    /\ [](pc = "done" => (s = <<>> /\ (Len(out) = 2 => out[1] = out[2])))
    /\ [][Built => (edgeList' = edgeList /\ vertexAmount' = vertexAmount)]_vars

C5_Witness ==
    /\ pc = "done" /\ N = 3 /\ Len(out) = 2
    /\ out[1].kind = "sum" /\ out[1].value > 0

\* C6: no edge of the built graph leads into a prime-valued vertex (later
\* steps leave edgeList alone, see C5), and through and after the
\* relaxation pass sum[v] is still INT_MAX for every prime-valued vertex v.
C6_PrimeVerticesUnreachable ==
    /\ pc = "built" =>
          \A e \in AllEdges : ~PrimeCell(edgeList[e[1]][e[2]].vertexNum)
    /\ pc = "relax" =>
          \A v \in DOMAIN sum : sum[v] # INT_MAX => ~PrimeCell(v)

C6_Witness ==
    /\ pc = "relax" /\ s = <<>> /\ N = 3
    /\ sum[1] # INT_MAX /\ sum[3] # INT_MAX
    /\ PrimeCell(2) /\ PrimeCell(5)

\* incoming edges of cell (r, c): one from each parent, weight -value
ParentEdgesOnly(r, c) ==
    LET v == Cell(r, c)
        into == EdgesInto(v)
    IN /\ {e[1] : e \in into} = Parents(r, c)
       /\ Cardinality(into) = Cardinality(Parents(r, c))
       /\ \A e \in into : edgeList[e[1]][e[2]].edgeWeight = -grid[v]

C8_BottomRowSinkEdges ==
    pc = "built" => \A c \in 0..(N - 1) :
        edgeList[Cell(N, c)] =
            IF IsPrimeNumber(grid[Cell(N, c)]) THEN <<>> ELSE <<Edge(Sink, 0)>>

\* C9: at every step of the builder every edge u -> v has 0 <= u < v <= V-1,
\* V = N(N+1)/2 + 2, and goes from the source to vertex 1, from a row to the next row, or from row N
\* to the sink; no addEdge call indexes outside the adjacency lists.
C9_EdgesForwardAndInRange ==
    /\ fault = FALSE
    /\ vertexAmount = (N * (N + 1)) \div 2 + 2
    /\ pc \in {"readFirst", "readLoop", "built"} =>
          /\ DOMAIN edgeList = 0..(vertexAmount - 1)
          /\ \A e \in AllEdges :
                LET u == e[1]
                    v == edgeList[e[1]][e[2]].vertexNum
                IN /\ 0 <= u /\ u < v /\ v <= vertexAmount - 1
                   /\ \/ u = 0 /\ v = 1
                      \/ IsCell(u) /\ IsCell(v) /\ RowOf(v) = RowOf(u) + 1
                      \/ IsCell(u) /\ RowOf(u) = N /\ v = vertexAmount - 1

C9_Witness ==
    /\ pc = "built" /\ N = 3
    /\ edgeList[0] # <<>>
    /\ Len(edgeList[1]) = 2
    /\ \E c \in 0..2 : edgeList[Cell(3, c)] # <<>>

\* C10: no edge of the built graph leads into vertex 0, sum[0] is 0 through
\* the whole relaxation pass, and so every call reports a number.
C10_SourceSumStaysZero ==
    /\ pc = "built" => \A e \in AllEdges : edgeList[e[1]][e[2]].vertexNum # 0
    /\ pc = "relax" => sum[0] = 0
    /\ pc = "done" => \A k \in 1..Len(out) : out[k].kind = "sum"

C10_Witness ==
    /\ pc = "relax" /\ N = 3
    /\ s # <<>> /\ Len(s) < vertexAmount
    /\ sum[0] = 0 /\ sum[1] # INT_MAX /\ sum[2] # INT_MAX

====
